---- MODULE Spec2Model ----
(***************************************************************************)
(* State machine of the CodeEditor component                              *)
(* (src/ui/shared/monaco/CodeEditor.tsx): the open tabs, the active file   *)
(* index, the meta-key flag, the editor widget's models and theme, the     *)
(* deferred scrolls and the handlers that change them.                     *)
(*                                                                         *)
(* A file path is a sequence of path segments ("contracts/a/Bar.sol" is    *)
(* <<"contracts", "a", "Bar.sol">>).  Indices into data and tabs are       *)
(* 0-based as in the source; At(s, i) reads the element at index i.        *)
(***************************************************************************)
EXTENDS Integers, Sequences, FiniteSets, TLC

VARIABLES data, index, tabs, isMetaPressed, isMobile, held, error, op, resolved,
          phase, instance, editorRef, colorMode, mountColorMode, theme, effectPending,
          models, timers, revealed

(* the editor widget and the theme: the component's phase ("loading" until *)
(* the widget has mounted, "mounted", "unmounted"), the instance state,    *)
(* editorRef.current (TRUE when set), the color mode, the color mode that  *)
(* handleEditorDidMount closed over, the widget's active theme and whether *)
(* the theme effect is still to run                                        *)
editorVars == <<phase, instance, editorRef, colorMode, mountColorMode, theme, effectPending>>

(* the pending window.setTimeout callbacks and the revealLineInCenter calls made *)
scrollVars == <<timers, revealed>>

vars == <<data, index, tabs, isMetaPressed, isMobile, held, error, op, resolved,
          phase, instance, editorRef, colorMode, mountColorMode, theme, effectPending,
          models, timers, revealed>>

-----------------------------------------------------------------------------
(* Bounds *)

MaxFiles == 3
MaxDepth == 3
MaxImportLen == 3
MaxScrolls == 2
MaxScrollFiles == 2
MaxAdapterFiles == 2

-----------------------------------------------------------------------------
(* Inputs *)

PathPool ==
    << <<"contracts", "a", "b", "Foo.sol">>,
       <<"contracts", "a", "Bar.sol">>,
       <<"contracts", "a", "b", "Baz.sol">>,
       <<"contracts", "Qux.sol">>,
       <<"lib", "Lib.sol">> >>

UnknownPath == <<"contracts", "a", "Missing.sol">>

Rel(segs) == [abs |-> FALSE, segs |-> segs]
Abs(segs) == [abs |-> TRUE, segs |-> segs]

ImportTexts ==
    { Rel(<<"..", "Bar.sol">>),
      Rel(<<".", "Baz.sol">>),
      Rel(<<".", "b", "Baz.sol">>),
      Rel(<<"..", "b", "Foo.sol">>),
      Rel(<<"..", "..", "Qux.sol">>),
      Rel(<<".", "Missing.sol">>),
      Abs(<<"contracts", "a", "Bar.sol">>) }

NoText == Rel(<<>>)

Keys == {"Meta", "Other"}

(* the lineNumber argument of handleSelectFile: left out, NaN or a number *)
LineNumbers == {"undefined", "NaN", "7"}

ColorModes == {"light", "dark"}

-----------------------------------------------------------------------------
(* Helpers *)

Max(a, b) == IF a > b THEN a ELSE b

Min(a, b) == IF a < b THEN a ELSE b

At(s, i) == s[i + 1]

ValidIndex(d, i) == i >= 0 /\ i < Len(d)

Includes(s, x) == \E k \in 1..Len(s) : s[k] = x

Filter(s, x) == SelectSeq(s, LAMBDA item : item # x)

findIndex(s, x) ==
    IF Includes(s, x)
    THEN (CHOOSE k \in 1..Len(s) : s[k] = x /\ \A j \in 1..(k - 1) : s[j] # x) - 1
    ELSE -1

Paths(d) == [k \in 1..Len(d) |-> d[k].file_path]

findFileIndex(d, path) == findIndex(Paths(d), path)

-----------------------------------------------------------------------------
(* Import resolver: utils/getFullPathOfImportedFile                        *)

dirname(path) == SubSeq(path, 1, Len(path) - 1)

RECURSIVE resolveChunks_KeepParent(_, _)
resolveChunks_KeepParent(result, chunks) ==
    IF chunks = <<>> THEN result
    ELSE LET element == Head(chunks) IN
         IF element = "." \/ element = ".."
         THEN resolveChunks_KeepParent(result, Tail(chunks))
         ELSE resolveChunks_KeepParent(Append(result, element), Tail(chunks))

RECURSIVE resolveChunks(_, _)
resolveChunks(result, chunks) ==
    IF chunks = <<>> THEN result
    ELSE LET element == Head(chunks) IN
         IF element = "." THEN resolveChunks(result, Tail(chunks))
         ELSE IF element = ".."
              THEN resolveChunks(SubSeq(result, 1, Max(0, Len(result) - 1)), Tail(chunks))
              ELSE resolveChunks(Append(result, element), Tail(chunks))

getFullPathOfImportedFile(baseFilePath, importPath) ==
    resolveChunks(IF importPath.abs THEN <<>> ELSE dirname(baseFilePath), importPath.segs)

-----------------------------------------------------------------------------
(* Component state *)

(* op is the last handler call: its name, its arguments (idx is the index  *)
(* handed to handleSelectFile, -1 when it was not called) and the index    *)
(* and tabs the handler was called with.                                   *)
Called(name, idx, path, text) ==
    [name |-> name, idx |-> idx, path |-> path, text |-> text, lineNumber |-> "undefined",
     prevIndex |-> index, prevTabs |-> tabs, prevModels |-> models,
     prevTimers |-> timers, prevRevealed |-> revealed]

NoResolve == [done |-> FALSE, base |-> <<>>, text |-> NoText, fullPath |-> <<>>]

MakeData(n) == [k \in 1..n |-> [file_path |-> PathPool[k]]]

(* models maps every path that has a model to the number of models with    *)
(* that path.                                                              *)
NoModels == [path \in {} |-> 0]

HasModel(ms, path) == path \in DOMAIN ms

createModel(ms, path) ==
    [q \in DOMAIN ms \cup {path} |-> IF q = path
                                     THEN (IF HasModel(ms, path) THEN ms[path] + 1 ELSE 1)
                                     ELSE ms[q]]

disposeModel(ms, path) == [q \in DOMAIN ms \ {path} |-> ms[q]]

(* The widget has not mounted yet, no model exists, the widget shows its    *)
(* default theme and the first run of the theme effect is still to come.   *)
InitEditor ==
    /\ phase = "loading"
    /\ instance = FALSE
    /\ editorRef = FALSE
    /\ mountColorMode = colorMode
    /\ theme = "vs"
    /\ effectPending = TRUE
    /\ models = NoModels
    /\ timers = <<>>
    /\ revealed = <<>>

InitWith_NoTab(maxFiles, mobiles, modes) ==
    /\ \E n \in 1..Min(maxFiles, Len(PathPool)) : data = MakeData(n)
    /\ index = 0
    /\ tabs = <<>>
    /\ isMetaPressed = FALSE
    /\ isMobile \in mobiles
    /\ held = {}
    /\ error = FALSE
    /\ colorMode \in modes
    /\ InitEditor
    /\ op = Called("init", -1, <<>>, NoText)
    /\ resolved = NoResolve

InitWith(maxFiles, mobiles, modes) ==
    /\ \E n \in 1..Min(maxFiles, Len(PathPool)) : data = MakeData(n)
    /\ index = 0
    /\ tabs = << At(data, index).file_path >>
    /\ isMetaPressed = FALSE
    /\ isMobile \in mobiles
    /\ held = {}
    /\ error = FALSE
    /\ colorMode \in modes
    /\ InitEditor
    /\ op = Called("init", -1, <<>>, NoText)
    /\ resolved = NoResolve

Init == InitWith(MaxFiles, BOOLEAN, {"light"})

(* The tabs, the sidebar and the click and key handlers are rendered only  *)
(* when there is more than one file (the single-file branch wires none).   *)
Interactive == ~error /\ Len(data) # 1 /\ phase # "unmounted"

(* Every render reads data[index].file_path; an index outside data throws. *)
RenderThrows(i) == ~ValidIndex(data, i)

(* The widget shows the model of its path prop, data[index].file_path, and *)
(* creates that model when no model has the path yet.                      *)
WidgetModels(ms, i) ==
    IF ValidIndex(data, i) /\ ~HasModel(ms, At(data, i).file_path)
    THEN createModel(ms, At(data, i).file_path)
    ELSE ms

(* A render with index i: it throws for an index outside data, and the     *)
(* mounted widget binds the model of the file at i.                        *)
Render(i) ==
    /\ error' = RenderThrows(i)
    /\ models' = IF phase = "mounted" THEN WidgetModels(models, i) ELSE models

TabPaths == { data[k].file_path : k \in 1..Len(data) } \cup {UnknownPath}

-----------------------------------------------------------------------------
(* Handlers *)

SelectedTabs_AlwaysAppend(prev, i) ==
    Append(prev, At(data, i).file_path)

SelectedTabs_MoveToFront(prev, i) ==
    <<At(data, i).file_path>> \o Filter(prev, At(data, i).file_path)

SelectedTabs(prev, i) ==
    IF Includes(prev, At(data, i).file_path) THEN prev ELSE Append(prev, At(data, i).file_path)

SelectFile(i) ==
    /\ index' = i
    /\ tabs' = SelectedTabs(tabs, i)
    /\ Render(i)

isLineNumber(lineNumber) == lineNumber # "undefined" /\ lineNumber # "NaN"

ScheduledTimers_NoNaNCheck(i, lineNumber) ==
    IF lineNumber # "undefined"
    THEN Append(timers, [lineNumber |-> lineNumber, idx |-> i])
    ELSE timers

ScheduledTimers(i, lineNumber) ==
    IF isLineNumber(lineNumber)
    THEN Append(timers, [lineNumber |-> lineNumber, idx |-> i])
    ELSE timers

handleSelectFile(i, lineNumber) ==
    /\ Interactive
    /\ isLineNumber(lineNumber) => Len(timers) + Len(revealed) < MaxScrolls
    /\ SelectFile(i)
    /\ timers' = ScheduledTimers(i, lineNumber)
    /\ op' = [Called("selectFile", i, <<>>, NoText) EXCEPT !.lineNumber = lineNumber]
    /\ UNCHANGED <<data, isMetaPressed, isMobile, held, resolved, editorVars, revealed>>

TabSelectIndex_Unchecked(path) ==
    findFileIndex(data, path)

TabSelectIndex(path) ==
    LET i == findFileIndex(data, path) IN IF i > -1 THEN i ELSE index

handleTabSelect(path) ==
    /\ Interactive
    /\ index' = TabSelectIndex(path)
    /\ Render(index')
    /\ op' = Called("selectTab", -1, path, NoText)
    /\ UNCHANGED <<data, tabs, isMetaPressed, isMobile, held, resolved, editorVars, scrollVars>>

nextActiveIndex_Unclamped(prev, path) ==
    LET tabIndex == findIndex(prev, path)
    IN  IF tabIndex - 1 >= 0 THEN findFileIndex(data, At(prev, tabIndex - 1)) ELSE -1

nextActiveIndex_Right(prev, path) ==
    LET tabIndex == findIndex(prev, path)
    IN  findFileIndex(data, At(prev, Min(Len(prev) - 1, tabIndex + 1)))

nextActiveIndex(prev, path) ==
    LET tabIndex == findIndex(prev, path)
    IN  findFileIndex(data, At(prev, Max(0, tabIndex - 1)))

ClosedIndex_AnyTab(prev, path) ==
    IF Len(prev) > 1 THEN nextActiveIndex(prev, path) ELSE index

ClosedIndex_Unguarded(prev, path) ==
    LET isActive == At(data, index).file_path = path
    IN  IF isActive THEN nextActiveIndex(prev, path) ELSE index

ClosedIndex(prev, path) ==
    LET isActive == At(data, index).file_path = path
    IN  IF Len(prev) > 1 /\ isActive THEN nextActiveIndex(prev, path) ELSE index

ClosedTabs_Unguarded(prev, path) ==
    Filter(prev, path)

ClosedTabs(prev, path) ==
    IF Len(prev) > 1 THEN Filter(prev, path) ELSE prev

handleTabClose(path) ==
    /\ Interactive
    /\ tabs' = ClosedTabs(tabs, path)
    /\ index' = ClosedIndex(tabs, path)
    /\ Render(index')
    /\ op' = Called("closeTab", -1, path, NoText)
    /\ UNCHANGED <<data, isMetaPressed, isMobile, held, resolved, editorVars, scrollVars>>

(* A click target is an import-link span with its text, or any other       *)
(* element (isImportLink = FALSE).  The import-link spans are the          *)
(* decorations that handleEditorDidMount adds.                             *)
ClickAllowed_Always == TRUE

ClickAllowed == isMetaPressed \/ isMobile

handleClick(isImportLink, text) ==
    /\ Interactive
    /\ isImportLink => phase = "mounted"
    /\ IF ClickAllowed /\ isImportLink
       THEN LET fullPath == getFullPathOfImportedFile(At(data, index).file_path, text)
                fileIndex == findFileIndex(data, fullPath)
            IN  IF fileIndex > -1
                THEN /\ SelectFile(fileIndex)
                     /\ op' = Called("click", fileIndex, <<>>, text)
                ELSE /\ UNCHANGED <<index, tabs, error, models>>
                     /\ op' = Called("click", -1, <<>>, text)
       ELSE /\ UNCHANGED <<index, tabs, error, models>>
            /\ op' = Called("click", -1, <<>>, IF isImportLink THEN text ELSE NoText)
    /\ UNCHANGED <<data, isMetaPressed, isMobile, held, resolved, editorVars, scrollVars>>

(* lib/isMetaKey: the event is one of the designated modifier key. *)
isMetaKey(key) == key = "Meta"

handleKeyDown(key) ==
    /\ Interactive
    /\ held' = held \cup {key}
    /\ isMetaPressed' = (isMetaKey(key) \/ isMetaPressed)
    /\ op' = Called("keyDown", -1, <<>>, NoText)
    /\ UNCHANGED <<data, index, tabs, isMobile, error, resolved, editorVars, models, scrollVars>>

handleKeyUp(key) ==
    /\ Interactive
    /\ key \in held
    /\ held' = held \ {key}
    /\ isMetaPressed' = FALSE
    /\ op' = Called("keyUp", -1, <<>>, NoText)
    /\ UNCHANGED <<data, index, tabs, isMobile, error, resolved, editorVars, models, scrollVars>>

-----------------------------------------------------------------------------
(* Editor adapter *)

ThemeFor(mode) == IF mode = "light" THEN "blockscout-light" ELSE "blockscout-dark"

(* monaco.editor.getModels() followed by a new model for every file of     *)
(* data.slice(1) whose path no loaded model has                            *)
RECURSIVE createModels(_, _)
createModels(ms, paths) ==
    IF paths = <<>> THEN ms ELSE createModels(createModel(ms, Head(paths)), Tail(paths))

MountedModels(loadedModels) ==
    LET newModels == SelectSeq(Paths(SubSeq(data, 2, Len(data))),
                               LAMBDA file_path : ~HasModel(loadedModels, file_path))
    IN  createModels(loadedModels, newModels)

(* setInstance(monaco) changes instance?.editor, a dependency of the theme *)
(* effect, so the effect runs again after the mount.                       *)
MountEffectPending_ColorModeOnly == effectPending

MountEffectPending == TRUE

(* The widget has created the model of its path prop when it calls onMount. *)
handleEditorDidMount ==
    /\ phase = "loading"
    /\ ~error
    /\ phase' = "mounted"
    /\ instance' = TRUE
    /\ editorRef' = TRUE
    /\ theme' = ThemeFor(mountColorMode)
    /\ models' = MountedModels(WidgetModels(models, index))
    /\ effectPending' = MountEffectPending
    /\ op' = Called("mount", -1, <<>>, NoText)
    /\ UNCHANGED <<data, index, tabs, isMetaPressed, isMobile, held, error, resolved,
                   colorMode, mountColorMode, scrollVars>>

(* React.useEffect(..., [ colorMode, instance?.editor ]) *)
themeEffect ==
    /\ effectPending
    /\ phase # "unmounted"
    /\ theme' = IF instance THEN ThemeFor(colorMode) ELSE theme
    /\ effectPending' = FALSE
    /\ op' = Called("effect", -1, <<>>, NoText)
    /\ UNCHANGED <<data, index, tabs, isMetaPressed, isMobile, held, error, resolved,
                   phase, instance, editorRef, colorMode, mountColorMode, models, scrollVars>>

(* useColorMode() yields another color mode; a rendered component runs its *)
(* theme effect again.                                                     *)
colorModeChange ==
    /\ \E mode \in ColorModes \ {colorMode} : colorMode' = mode
    /\ effectPending' = (phase # "unmounted")
    /\ op' = Called("colorMode", -1, <<>>, NoText)
    /\ UNCHANGED <<data, index, tabs, isMetaPressed, isMobile, held, error, resolved,
                   phase, instance, editorRef, mountColorMode, theme, models, scrollVars>>

(* The component is dismantled: the widget is disposed, with or without    *)
(* the model it shows; the models that handleEditorDidMount created stay,  *)
(* and so do editorRef.current and the pending timers.                     *)
unmount ==
    /\ phase # "unmounted"
    /\ phase' = "unmounted"
    /\ effectPending' = FALSE
    /\ \E keepCurrentModel \in BOOLEAN :
          models' = IF keepCurrentModel \/ ~ValidIndex(data, index)
                    THEN models ELSE disposeModel(models, At(data, index).file_path)
    /\ op' = Called("unmount", -1, <<>>, NoText)
    /\ UNCHANGED <<data, index, tabs, isMetaPressed, isMobile, held, error, resolved,
                   instance, editorRef, colorMode, mountColorMode, theme, scrollVars>>

(* A new instance of the component is rendered with the same data: its     *)
(* state starts afresh, the models and the theme of the widget library     *)
(* are still there.                                                        *)
remount ==
    /\ phase = "unmounted"
    /\ timers = <<>>
    /\ phase' = "loading"
    /\ index' = 0
    /\ tabs' = << At(data, 0).file_path >>
    /\ isMetaPressed' = FALSE
    /\ error' = FALSE
    /\ instance' = FALSE
    /\ editorRef' = FALSE
    /\ mountColorMode' = colorMode
    /\ effectPending' = TRUE
    /\ op' = Called("construct", -1, <<>>, NoText)
    /\ UNCHANGED <<data, isMobile, held, resolved, colorMode, theme, models, scrollVars>>

(* The callback of window.setTimeout(..., 0): timers fire in the order     *)
(* they were set.  A call of revealLineInCenter is recorded with the line, *)
(* the index it was requested for, the index active when it runs and       *)
(* whether the widget had been disposed.                                   *)
timerFire ==
    /\ timers # <<>>
    /\ timers' = Tail(timers)
    /\ revealed' = IF editorRef
                   THEN Append(revealed, [lineNumber |-> Head(timers).lineNumber,
                                          idx |-> Head(timers).idx,
                                          index |-> index,
                                          disposed |-> phase = "unmounted"])
                   ELSE revealed
    /\ op' = Called("timer", -1, <<>>, NoText)
    /\ UNCHANGED <<data, index, tabs, isMetaPressed, isMobile, held, error, resolved,
                   editorVars, models>>

-----------------------------------------------------------------------------
(* Specification *)

selectFile ==
    \E i \in 0..(Len(data) - 1) : \E lineNumber \in {"undefined", "NaN"} :
        handleSelectFile(i, lineNumber)

selectTab == \E path \in TabPaths : handleTabSelect(path)

closeTab == \E path \in TabPaths : handleTabClose(path)

click == \E isImportLink \in BOOLEAN : \E text \in ImportTexts : handleClick(isImportLink, text)

keyDown == \E key \in Keys : handleKeyDown(key)

keyUp == \E key \in Keys : handleKeyUp(key)

Next ==
    \/ selectFile
    \/ selectTab
    \/ closeTab
    \/ click
    \/ keyDown
    \/ keyUp
    \/ handleEditorDidMount

Spec == Init /\ [][Next]_vars

(* The tabs bar offers only the open tabs for selection. *)
selectOpenTab == \E k \in 1..Len(tabs) : handleTabSelect(tabs[k])

NextOpenTabs ==
    \/ selectFile
    \/ selectOpenTab
    \/ closeTab
    \/ click
    \/ keyDown
    \/ keyUp
    \/ handleEditorDidMount

SpecOpenTabs == Init /\ [][NextOpenTabs]_vars

(* Selections with a line number, the deferred scrolls and the unmount, on *)
(* a mobile device (import links need no key).                             *)
selectFileAt ==
    \E i \in 0..(Len(data) - 1) : \E lineNumber \in LineNumbers :
        handleSelectFile(i, lineNumber)

InitScroll == InitWith(MaxScrollFiles, {TRUE}, {"light"})

NextScroll ==
    \/ selectFileAt
    \/ selectTab
    \/ closeTab
    \/ click
    \/ handleEditorDidMount
    \/ unmount
    \/ timerFire

SpecScroll == InitScroll /\ [][NextScroll]_vars

(* The widget's models and theme over mounts, color-mode changes and the   *)
(* tab handlers.                                                           *)
InitAdapter == InitWith(MaxAdapterFiles, {FALSE}, ColorModes)

NextAdapter ==
    \/ selectFile
    \/ selectTab
    \/ closeTab
    \/ handleEditorDidMount
    \/ themeEffect
    \/ colorModeChange
    \/ unmount
    \/ remount

SpecAdapter == InitAdapter /\ [][NextAdapter]_vars

-----------------------------------------------------------------------------
(* Resolver specification: the import resolver applied to every base path  *)
(* and import text over a bounded set of segments.                         *)

DirSegments == {"contracts", "a", "b"}

ImportSegments == {".", "..", "a", "b"}

FileNames == {"Foo.sol", "Bar.sol", "Baz.sol"}

SeqsUpTo(S, n) == UNION { [1..k -> S] : k \in 0..n }

BasePaths == { Append(d, "Foo.sol") : d \in SeqsUpTo(DirSegments, MaxDepth) }

ImportPaths ==
    { [abs |-> a, segs |-> Append(d, f)] :
        a \in BOOLEAN, d \in SeqsUpTo(ImportSegments, MaxImportLen - 1), f \in FileNames \ {"Foo.sol"} }

InitResolve ==
    /\ data = MakeData(1)
    /\ index = 0
    /\ tabs = << At(data, index).file_path >>
    /\ isMetaPressed = FALSE
    /\ isMobile = FALSE
    /\ held = {}
    /\ error = FALSE
    /\ colorMode = "light"
    /\ InitEditor
    /\ op = Called("init", -1, <<>>, NoText)
    /\ \E b \in BasePaths : \E t \in ImportPaths :
          resolved = [done |-> FALSE, base |-> b, text |-> t, fullPath |-> <<>>]

Resolve ==
    /\ ~resolved.done
    /\ resolved' = [resolved EXCEPT !.done = TRUE,
                                    !.fullPath = getFullPathOfImportedFile(resolved.base, resolved.text)]
    /\ UNCHANGED <<data, index, tabs, isMetaPressed, isMobile, held, error, op,
                   editorVars, models, scrollVars>>

NextResolve == Resolve

SpecResolve == InitResolve /\ [][NextResolve]_vars

-----------------------------------------------------------------------------
(* Properties *)

NoDuplicates(s) == \A j, k \in 1..Len(s) : s[j] = s[k] => j = k

IsPrefix(s, t) == Len(s) <= Len(t) /\ SubSeq(t, 1, Len(s)) = s

RemoveAt(s, p) == SubSeq(s, 1, p) \o SubSeq(s, p + 2, Len(s))

HasFile(path) == \E k \in 1..Len(data) : data[k].file_path = path

ActivePath == At(data, index).file_path

PrevActivePath == At(data, op.prevIndex).file_path

(* C1: in every reachable state the active index is a valid index into the *)
(* File collection, 0 <= index < number of files, and so never -1.         *)
C1_ActiveIndexValid == index >= 0 /\ index < Len(data) /\ index # -1

(* a close of the active tab has moved the active index to another file *)
C1_Witness ==
    /\ op.name = "closeTab"
    /\ Len(op.prevTabs) > 1
    /\ PrevActivePath = op.path
    /\ index # op.prevIndex

(* C2: the tab sequence always holds at least one path and no path twice;  *)
(* it grows only by a selectFile of a file that is not yet open (appended  *)
(* at the end) and shrinks only by closeTab.                               *)
C2_TabsInvariant ==
    /\ Len(tabs) >= 1
    /\ NoDuplicates(tabs)
    /\ Len(tabs) > Len(op.prevTabs) =>
          /\ op.name \in {"selectFile", "click"}
          /\ op.idx # -1
          /\ ~Includes(op.prevTabs, At(data, op.idx).file_path)
    /\ Len(tabs) < Len(op.prevTabs) => op.name = "closeTab"
    /\ Len(tabs) = Len(op.prevTabs) => tabs = op.prevTabs

(* a tab opened earlier has been closed, leaving a single tab *)
C2_Witness ==
    /\ op.name = "closeTab"
    /\ Len(op.prevTabs) = 2
    /\ Len(tabs) = 1

(* C3: closing the active file's tab at position 0, with more than one tab *)
(* open, makes the new first tab (the old position 1) the active file.     *)
C3_CloseFirstActive ==
    (/\ op.name = "closeTab"
     /\ Len(op.prevTabs) > 1
     /\ PrevActivePath = op.path
     /\ At(op.prevTabs, 0) = op.path)
    => (/\ ValidIndex(data, index)
        /\ ActivePath = At(tabs, 0)
        /\ ActivePath = At(op.prevTabs, 1))

(* C4: closing the active file's tab at position p > 0 of n > 1 tabs makes *)
(* the file of the tab at position p-1 (before the removal) active and     *)
(* removes exactly that tab.                                               *)
C4_CloseActiveLeft ==
    \A p \in 1..(Len(op.prevTabs) - 1) :
        (/\ op.name = "closeTab"
         /\ PrevActivePath = op.path
         /\ At(op.prevTabs, p) = op.path)
        => (/\ ValidIndex(data, index)
            /\ ActivePath = At(op.prevTabs, p - 1)
            /\ tabs = RemoveAt(op.prevTabs, p))

(* the active tab at the last of three positions has been closed *)
C4_Witness ==
    /\ op.name = "closeTab"
    /\ Len(op.prevTabs) = 3
    /\ PrevActivePath = op.path
    /\ At(op.prevTabs, 2) = op.path
    /\ ActivePath = At(op.prevTabs, 1)

(* C5: closeTab of any path with exactly one tab open leaves the tab       *)
(* sequence and the active index unchanged.                                *)
C5_CloseSoleTab ==
    (op.name = "closeTab" /\ Len(op.prevTabs) = 1)
    => (tabs = op.prevTabs /\ index = op.prevIndex)

(* closeTab of the active file's path was called while only another        *)
(* file's tab was open                                                     *)
C5_Witness ==
    /\ op.name = "closeTab"
    /\ Len(op.prevTabs) = 1
    /\ PrevActivePath = op.path
    /\ At(op.prevTabs, 0) # op.path

(* C6: selectFile(i) of a file that is not open appends exactly its path   *)
(* at the end of the tab sequence and makes i active; selectFile(i) called *)
(* again right after it changes neither the tabs nor the active index.     *)
C6_SelectFileOpens ==
    [][ /\ (op'.name = "selectFile" /\ ~Includes(tabs, At(data, op'.idx).file_path))
           => (tabs' = Append(tabs, At(data, op'.idx).file_path) /\ index' = op'.idx)
        /\ (/\ op.name = "selectFile"
            /\ ~Includes(op.prevTabs, At(data, op.idx).file_path)
            /\ op'.name = "selectFile"
            /\ op'.idx = op.idx)
           => (tabs' = tabs /\ index' = index) ]_vars

(* selectFile was called again with the index it had just opened *)
C6_Witness ==
    /\ op.name = "selectFile"
    /\ op.prevIndex = op.idx
    /\ index = op.idx
    /\ Len(tabs) = 3
    /\ At(tabs, 2) = At(data, op.idx).file_path
    /\ tabs = op.prevTabs

(* C7: selectFile never removes or reorders open tabs: the tab sequence    *)
(* before the call is a prefix of the tab sequence after it.               *)
C7_SelectFileKeepsTabs ==
    op.name = "selectFile" => IsPrefix(op.prevTabs, tabs)

(* selectFile opened a third tab after two others *)
C7_Witness ==
    /\ op.name = "selectFile"
    /\ Len(op.prevTabs) = 2
    /\ Len(tabs) = 3

(* C8: selectTab(path) makes the file with that path active when there is  *)
(* one and changes nothing otherwise; the tabs stay as they were and no    *)
(* render fails.                                                           *)
C8_SelectTab ==
    op.name = "selectTab" =>
        /\ tabs = op.prevTabs
        /\ ~error
        /\ ValidIndex(data, index)
        /\ IF HasFile(op.path)
           THEN ActivePath = op.path /\ \A k \in 1..index : data[k].file_path # op.path
           ELSE index = op.prevIndex

(* selectTab was called with a path of no file while another file than the *)
(* first one was active                                                    *)
C8_Witness ==
    /\ op.name = "selectTab"
    /\ ~HasFile(op.path)
    /\ op.prevIndex > 0
    /\ index = op.prevIndex

(* C9: a click changes the tabs or the active index only when the          *)
(* interaction mode is active (meta flag or mobile) and the target is an   *)
(* import reference whose text resolves to the path of a file; it then     *)
(* acts as selectFile of that file, and otherwise changes nothing.         *)
C9_ImportClick ==
    op.name = "click" =>
        LET fullPath == getFullPathOfImportedFile(PrevActivePath, op.text)
        IN  IF (isMetaPressed \/ isMobile) /\ op.text # NoText /\ HasFile(fullPath)
            THEN /\ ValidIndex(data, index)
                 /\ ActivePath = fullPath
                 /\ tabs = IF Includes(op.prevTabs, fullPath)
                           THEN op.prevTabs ELSE Append(op.prevTabs, fullPath)
            ELSE tabs = op.prevTabs /\ index = op.prevIndex

(* on desktop, with the meta flag set, a click on an import reference      *)
(* opened the imported file in a new tab                                   *)
C9_Witness ==
    /\ op.name = "click"
    /\ ~isMobile
    /\ isMetaPressed
    /\ op.text = Rel(<<"..", "Bar.sol">>)
    /\ Len(tabs) = Len(op.prevTabs) + 1
    /\ ActivePath = <<"contracts", "a", "Bar.sol">>

-----------------------------------------------------------------------------
(* Reference Unix resolution for C10: the segments are read from the last  *)
(* to the first, counting the parents still to be skipped.                 *)

RECURSIVE UnixNormalize(_, _)
UnixNormalize(segs, skip) ==
    IF segs = <<>> THEN <<>>
    ELSE LET last == segs[Len(segs)]
             front == SubSeq(segs, 1, Len(segs) - 1)
         IN  IF last = "." THEN UnixNormalize(front, skip)
             ELSE IF last = ".." THEN UnixNormalize(front, skip + 1)
             ELSE IF skip > 0 THEN UnixNormalize(front, skip - 1)
             ELSE Append(UnixNormalize(front, 0), last)

UnixResolve(base, text) ==
    UnixNormalize((IF text.abs THEN <<>> ELSE SubSeq(base, 1, Len(base) - 1)) \o text.segs, 0)

(* C10: the import text is resolved against the directory of the active    *)
(* file's path as Unix path resolution does: from contracts/a/b/Foo.sol,   *)
(* ../Bar.sol gives contracts/a/Bar.sol and ./Baz.sol gives                *)
(* contracts/a/b/Baz.sol, and every result equals the reference.           *)
C10_ImportResolution ==
    resolved.done =>
        /\ resolved.fullPath = UnixResolve(resolved.base, resolved.text)
        /\ (resolved.base = <<"contracts", "a", "b", "Foo.sol">> /\ resolved.text = Rel(<<"..", "Bar.sol">>))
              => resolved.fullPath = <<"contracts", "a", "Bar.sol">>
        /\ (resolved.base = <<"contracts", "a", "b", "Foo.sol">> /\ resolved.text = Rel(<<".", "Baz.sol">>))
              => resolved.fullPath = <<"contracts", "a", "b", "Baz.sol">>

(* ../Bar.sol has been resolved from contracts/a/b/Foo.sol *)
C10_Witness ==
    /\ resolved.done
    /\ resolved.base = <<"contracts", "a", "b", "Foo.sol">>
    /\ resolved.text = Rel(<<"..", "Bar.sol">>)
    /\ resolved.fullPath = <<"contracts", "a", "Bar.sol">>

-----------------------------------------------------------------------------
(* Properties of the key flag, the deferred scroll, the models and the     *)
(* theme                                                                   *)

(* C11: on desktop the meta-key-pressed flag is true exactly while the     *)
(* modifier key is held down, whatever other keys go down and up.          *)
C11_MetaFlagTracksKey ==
    ~isMobile => (isMetaPressed <=> "Meta" \in held)

(* C12: a deferred scroll that fires after the component was unmounted     *)
(* performs no operation on the disposed editor widget.                    *)
C12_NoScrollAfterUnmount ==
    \A k \in 1..Len(revealed) : ~revealed[k].disposed

(* C13: selectFile(idx, line) with a numeric line sets the active index    *)
(* and schedules exactly one scroll to that line, which runs in a later    *)
(* step; without a line or with NaN it schedules none.                     *)
C13_DeferredScroll ==
    /\ op.name = "selectFile" =>
          /\ index = op.idx
          /\ revealed = op.prevRevealed
          /\ IF op.lineNumber \in LineNumbers \ {"undefined", "NaN"}
             THEN /\ Len(timers) = Len(op.prevTimers) + 1
                  /\ SubSeq(timers, 1, Len(op.prevTimers)) = op.prevTimers
                  /\ timers[Len(timers)].lineNumber = op.lineNumber
                  /\ timers[Len(timers)].idx = op.idx
             ELSE timers = op.prevTimers
    /\ op.name = "timer" =>
          /\ Len(op.prevTimers) = Len(timers) + 1
          /\ Len(revealed) <= Len(op.prevRevealed) + 1
          /\ Len(revealed) > Len(op.prevRevealed) =>
                revealed[Len(revealed)].lineNumber = op.prevTimers[1].lineNumber
    /\ op.name \notin {"selectFile", "timer"} =>
          (timers = op.prevTimers /\ revealed = op.prevRevealed)

(* the scroll scheduled by a selectFile with line 7 has run on the mounted *)
(* widget                                                                  *)
C13_Witness ==
    /\ op.name = "timer"
    /\ Len(revealed) = 1
    /\ revealed[1].lineNumber = "7"
    /\ ~revealed[1].disposed
    /\ revealed[1].idx = index

(* C14: for every non-empty File collection the initial tab sequence is    *)
(* the one-element sequence of the first file's path and the active index  *)
(* is 0.                                                                   *)
C14_InitialState ==
    op.name = "init" =>
        /\ Len(data) >= 1
        /\ tabs = << data[1].file_path >>
        /\ index = 0

(* the initial state of a collection of several files *)
C14_Witness ==
    /\ op.name = "init"
    /\ Len(data) > 1
    /\ tabs = << PathPool[1] >>

(* C15: closeTab of an open tab that is not the active file's, with more   *)
(* than one tab open, removes exactly that path, keeps the order of the    *)
(* other tabs and leaves the active index unchanged.                       *)
C15_CloseInactiveTab ==
    \A p \in 0..(Len(op.prevTabs) - 1) :
        (/\ op.name = "closeTab"
         /\ Len(op.prevTabs) > 1
         /\ At(op.prevTabs, p) = op.path
         /\ PrevActivePath # op.path)
        => (/\ index = op.prevIndex
            /\ tabs = RemoveAt(op.prevTabs, p))

(* with three tabs open and the third active, the second has been closed   *)
C15_Witness ==
    /\ op.name = "closeTab"
    /\ Len(op.prevTabs) = 3
    /\ op.path = At(op.prevTabs, 1)
    /\ PrevActivePath = At(op.prevTabs, 2)
    /\ tabs = << At(op.prevTabs, 0), At(op.prevTabs, 2) >>
    /\ ActivePath = At(tabs, 1)

(* C16: once the mount handler has run every file has exactly one model,   *)
(* and no later selectFile, selectTab, closeTab or color-mode change       *)
(* creates or removes a model.                                             *)
C16_ModelsCached ==
    /\ phase = "mounted" =>
          \A k \in 1..Len(data) :
              HasModel(models, data[k].file_path) /\ models[data[k].file_path] = 1
    /\ (phase = "mounted" /\ op.name \in {"selectFile", "selectTab", "closeTab", "colorMode"})
          => models = op.prevModels

(* C17: once the widget is mounted and no theme effect is pending, the     *)
(* active theme is the light palette in light mode and the dark palette    *)
(* otherwise; a color-mode change leaves the models unchanged.             *)
C17_ThemeMatchesColorMode ==
    /\ (phase = "mounted" /\ ~effectPending) =>
          \/ (colorMode = "light" /\ theme = "blockscout-light")
          \/ (colorMode # "light" /\ theme = "blockscout-dark")
    /\ op.name = "colorMode" => models = op.prevModels

(* the theme effect has run on a mounted widget whose mount handler had    *)
(* closed over another color mode than the current one                     *)
C17_Witness ==
    /\ op.name = "effect"
    /\ phase = "mounted"
    /\ ~effectPending
    /\ mountColorMode # colorMode
    /\ theme = ThemeFor(colorMode)

(* C18: in every reachable state the active file's path is one of the      *)
(* paths of the tab sequence.                                              *)
C18_ActiveFileHasTab ==
    ValidIndex(data, index) /\ Includes(tabs, ActivePath)

(* C19: when a deferred scroll runs, the active index is the index the     *)
(* scroll was requested for.                                               *)
C19_ScrollInRequestedFile ==
    \A k \in 1..Len(revealed) : revealed[k].index = revealed[k].idx

(* C20: closeTab of a path that is not in the tab sequence leaves the tab  *)
(* sequence and the active index unchanged.                                *)
C20_CloseUnopenedPath ==
    (op.name = "closeTab" /\ ~Includes(op.prevTabs, op.path))
    => (tabs = op.prevTabs /\ index = op.prevIndex)

====
